---- MODULE Spec2Model ----
(***************************************************************************)
(* BookElysium: the catalog store, the Open Library adapter, the rating    *)
(* aggregator and the recommendation engine of server/DatabaseStorage,     *)
(* server/openLibraryService and server/routes.                            *)
(*                                                                         *)
(* Conventions.                                                            *)
(*  - A table with a serial primary key is a sequence of rows; the row at  *)
(*    index i has id i (rows of books and user_ratings are never deleted). *)
(*  - books.rating is a REAL column (migrations/convert_rating_to_real);   *)
(*    it is kept here in tenths: 45 stands for 4.5.                        *)
(*  - Text is a sequence of one-character strings, so that LOWER and       *)
(*    ILIKE '%q%' are computed and not assumed. <<>> stands for NULL.      *)
(*  - Spec, SpecCatalog and SpecRecommend run whole request handlers one   *)
(*    after the other; SpecConc interleaves the handlers of two requests   *)
(*    at their awaits (one database round trip per step).                  *)
(***************************************************************************)
EXTENDS Integers, Sequences, FiniteSets, TLC

VARIABLES
    books,         \* table books: Seq of [olid, title, author, genre, rating, ratingCount]
    userRatings,   \* table user_ratings: Seq of [userId, bookId, rating, ratedAt]
    savedBooks,    \* table saved_books: Seq of [userId, bookId]
    bookComments,  \* table book_comments: Seq of [userId, bookId]
    memBooks,      \* MemStorage.books, fed the same rate calls as the database
    memUserRatings,\* MemStorage.userRatings: Seq of [userId, bookId, rating]
    last,          \* the response of the request that completed last
    procs,         \* the requests in flight, one record per worker
    users,         \* table users: Seq of [email, password, resetPasswordToken,
                   \* resetPasswordExpires], 0 for NULL
    now,           \* the clock the server and the database read, in hours
    tokensIssued   \* how many tokens generateToken has returned

memVars == <<memBooks, memUserRatings>>
authVars == <<users, now, tokensIssued>>
vars == <<books, userRatings, savedBooks, bookComments, memBooks, memUserRatings,
          last, procs, users, now, tokensIssued>>

-----------------------------------------------------------------------------
(* Bounds of the model *)

MaxBooks == 4       \* rows of books
MaxRatings == 2     \* rows of user_ratings
MaxLimit == 3       \* largest ?limit= of a request
MaxDocs == 2        \* longest docs list of an Open Library response

\* the authenticated users
Users == {1, 2}
\* ids a request may name: the seeded rows and the rows the adapter may add
BookIds == 1..(MaxBooks - 1)
\* req.body.rating values sent to POST /api/books/:id/rate
RateInputs == {0, 2, 4, 5, 6}

-----------------------------------------------------------------------------
(* Text *)

Lower(c) ==
    CASE c = "D" -> "d"
      [] c = "E" -> "e"
      [] c = "F" -> "f"
      [] c = "S" -> "s"
      [] OTHER -> c

LowerText(t) == [i \in 1..Len(t) |-> Lower(t[i])]

\* text ILIKE '%' || q || '%'
ILikeContains(t, q) ==
    \E i \in 0..(Len(t) - Len(q)) :
        LowerText(SubSeq(t, i + 1, i + Len(q))) = LowerText(q)

Fantasy == <<"F", "a">>
SciFi == <<"S", "f">>

-----------------------------------------------------------------------------
(* Seeded catalog: unnamed/part_009 seeds books with a rating and a        *)
(* ratingCount and no user_ratings rows; a row inserted without them gets  *)
(* the column defaults 0 and 0.                                            *)

SeedBooks ==
    << [olid |-> "OL1W", title |-> <<"D", "u">>, author |-> <<"H", "e">>,
        genre |-> SciFi, rating |-> 50, ratingCount |-> 1203],
       [olid |-> "OL2W", title |-> <<"E", "m">>, author |-> <<"A", "u">>,
        genre |-> Fantasy, rating |-> 0, ratingCount |-> 0] >>

Idle == [op |-> "none", status |-> 0]

\* two requests the server handles concurrently; each runs once
Requests == {1, 2}
IdleProc == [pc |-> "idle"]

\* two accounts, no reset asked for yet
SeedUsers ==
    << [email |-> "a", password |-> "h0", resetPasswordToken |-> 0,
        resetPasswordExpires |-> 0],
       [email |-> "b", password |-> "h0", resetPasswordToken |-> 0,
        resetPasswordExpires |-> 0] >>

Init ==
    /\ books = SeedBooks
    /\ userRatings = <<>>
    /\ savedBooks = <<>>
    /\ bookComments = <<>>
    /\ memBooks = SeedBooks
    /\ memUserRatings = <<>>
    /\ last = Idle
    /\ procs = [r \in Requests |-> IdleProc]
    /\ users = SeedUsers
    /\ now = 0
    /\ tokensIssued = 0

-----------------------------------------------------------------------------
(* Open Library: the foreign records and the responses of the search API.  *)
(* key is the path split at "/", so "/works/OL3W" is <<"", "works", "OL3W">>;*)
(* <<>> or 0 stands for a field the record does not carry.                 *)

CurrentYear == 2025
AgeFactorMax == 50
ListingEditionCap == 20
WorkRevisionCap == 30

DocKnown ==
    [key |-> <<"", "works", "OL1W">>, title |-> <<"D", "u">>,
     author_name |-> <<"H", "e">>, first_publish_year |-> 1965,
     subject |-> SciFi, edition_count |-> 30]
DocNewA ==
    [key |-> <<"", "works", "OL3W">>, title |-> <<"E", "x">>,
     author_name |-> <<"A", "u">>, first_publish_year |-> 2020,
     subject |-> Fantasy, edition_count |-> 2]
DocNewB ==
    [key |-> <<"", "works", "OL4W">>, title |-> <<"D", "o">>,
     author_name |-> <<>>, first_publish_year |-> 0,
     subject |-> <<>>, edition_count |-> 0]
DocNoTitle ==
    [key |-> <<"", "works", "OL5W">>, title |-> <<>>,
     author_name |-> <<"A", "u">>, first_publish_year |-> 1990,
     subject |-> SciFi, edition_count |-> 1]

Docs == {DocKnown, DocNewA, DocNewB, DocNoTitle}

DocLists == UNION {[1..n -> Docs] : n \in 0..MaxDocs}

\* fetch + response.ok + response.json(): a docs list, or a failure that throws
ExternalResponses ==
    {[ok |-> FALSE, docs |-> <<>>]} \cup {[ok |-> TRUE, docs |-> d] : d \in DocLists}

\* GET /works/<olid>.json and the author records: first_publish_date is kept
\* as the number its digits spell and whether other text comes before them
\* ("1965" against "June 1965"); year 0 stands for no first_publish_date
WorkOld ==
    [title |-> <<"D", "o">>, authors |-> <<"A", "u">>, subjects |-> SciFi,
     first_publish_date |-> [year |-> 1965, leadingText |-> FALSE], revision |-> 40]
WorkNew ==
    [title |-> <<>>, authors |-> <<>>, subjects |-> <<>>,
     first_publish_date |-> [year |-> 0, leadingText |-> FALSE], revision |-> 0]
WorkWordyDate ==
    [title |-> <<"E", "x">>, authors |-> <<"A", "u">>, subjects |-> Fantasy,
     first_publish_date |-> [year |-> 2020, leadingText |-> TRUE], revision |-> 3]

Works == {WorkOld, WorkNew, WorkWordyDate}

WorkResponses ==
    {[ok |-> FALSE, data |-> WorkNew]} \cup {[ok |-> TRUE, data |-> w] : w \in Works}

\* the olids a by-id lookup may name
OlidInputs == {"OL1W", "OL3W", "OL4W"}

-----------------------------------------------------------------------------
(* External Catalog Adapter: openLibraryService *)

Min(a, b) == IF a < b THEN a ELSE b
Max(a, b) == IF a > b THEN a ELSE b

\* book.key.split('/').pop() || ''
DocOlid(doc) == IF doc.key = <<>> THEN "" ELSE doc.key[Len(doc.key)]

\* select().from(books).where(eq(books.olid, olid)): the ids of the rows
BooksByOlid(bks, olid) == {i \in 1..Len(bks) : bks[i].olid = olid}

\* Math.round((3 + (1 - ageFactor) * 1.5 + editionFactor * 0.5) * 10), the
\* rating in tenths, over the rationals: ageFactor = min(yearsOld, 50) / 50 and
\* editionFactor = min(editionCount, cap) / cap
CalculatedRating(yearsOld, editionCount, cap) ==
    LET age == Min(yearsOld, AgeFactorMax)
        ed == Min(editionCount, cap)
        \* the rounded value is num / den
        num == 30 * AgeFactorMax * cap + 15 * (AgeFactorMax - age) * cap
               + 5 * ed * AgeFactorMax
        den == AgeFactorMax * cap
    IN (2 * num + den) \div (2 * den)

\* Math.round(editionCount * k + (1 - ageFactor) * 100)
CalculatedRatingCount(yearsOld, editionCount, k) ==
    LET age == Min(yearsOld, AgeFactorMax)
        num == editionCount * k * AgeFactorMax + (AgeFactorMax - age) * 100
    IN (2 * num + AgeFactorMax) \div (2 * AgeFactorMax)

\* the InsertBook built by processOpenLibraryResults
NewBookFromDoc(doc) ==
    LET yearsOld == CurrentYear - (IF doc.first_publish_year = 0 THEN CurrentYear
                                   ELSE doc.first_publish_year)
        editionCount == IF doc.edition_count = 0 THEN 1 ELSE doc.edition_count
    IN [olid |-> DocOlid(doc),
        title |-> doc.title,
        author |-> IF doc.author_name = <<>> THEN <<"U", "n">> ELSE doc.author_name,
        genre |-> doc.subject,
        rating |-> CalculatedRating(yearsOld, editionCount, ListingEditionCap),
        ratingCount |-> CalculatedRatingCount(yearsOld, editionCount, 10)]

\* the table without its unique key
UniqueViolationNever(bks, row) == FALSE

\* olid is declared unique: an insert of a present olid raises an error
UniqueViolation(bks, row) == BooksByOlid(bks, row.olid) # {}

\* the loop body with an upsert in place of "use the existing row"
ProcessDocUpsert(bks, doc) ==
    LET existing == BooksByOlid(bks, DocOlid(doc))
    IN IF doc.key = <<>> \/ doc.title = <<>> THEN [books |-> bks, pushed |-> <<>>]
       ELSE IF existing # {}
       THEN LET i == CHOOSE j \in existing : TRUE
            IN [books |-> [bks EXCEPT ![i] = NewBookFromDoc(doc)], pushed |-> <<i>>]
       ELSE [books |-> Append(bks, NewBookFromDoc(doc)), pushed |-> <<Len(bks) + 1>>]

\* one pass of the loop body of processOpenLibraryResults, check and insert
\* with nothing in between: [books |-> table afterwards, pushed |-> <<id>> or <<>>]
ProcessDoc(bks, doc) ==
    LET existing == BooksByOlid(bks, DocOlid(doc))
        row == NewBookFromDoc(doc)
    IN IF doc.key = <<>> \/ doc.title = <<>> THEN [books |-> bks, pushed |-> <<>>]
       ELSE IF existing # {}
       THEN [books |-> bks, pushed |-> <<CHOOSE i \in existing : TRUE>>]
       ELSE IF UniqueViolation(bks, row) THEN [books |-> bks, pushed |-> <<>>]
       ELSE [books |-> Append(bks, row), pushed |-> <<Len(bks) + 1>>]

RECURSIVE processOpenLibraryResults(_, _)
\* the loop over results, requests handled one after the other:
\* [books |-> the table afterwards, processed |-> ids of processedBooks]
processOpenLibraryResults(bks, docs) ==
    IF docs = <<>> THEN [books |-> bks, processed |-> <<>>]
    ELSE LET one == ProcessDoc(bks, Head(docs))
             rest == processOpenLibraryResults(one.books, Tail(docs))
         IN [books |-> rest.books, processed |-> one.pushed \o rest.processed]

\* parseInt(publishDate): NaN unless the text starts with digits
ParseIntIsNaN(date) == date.leadingText

\* the InsertBook built by getBookByOLID; nan: rating and ratingCount are NaN
NewBookFromWork(olid, data) ==
    LET date == data.first_publish_date
        publishYear == IF date.year = 0 THEN CurrentYear ELSE date.year
        yearsOld == CurrentYear - publishYear
        editionCount == IF data.revision = 0 THEN 1 ELSE data.revision
    IN [olid |-> olid,
        title |-> IF data.title = <<>> THEN <<"U", "n">> ELSE data.title,
        author |-> IF data.authors = <<>> THEN <<"U", "n">> ELSE data.authors,
        genre |-> data.subjects,
        rating |-> CalculatedRating(yearsOld, editionCount, WorkRevisionCap),
        ratingCount |-> CalculatedRatingCount(yearsOld, editionCount, 5)]

\* ratingCount NaN is no integer: the insert of such a row raises an error
InsertRejectsNaN(data) ==
    data.first_publish_date.year # 0 /\ ParseIntIsNaN(data.first_publish_date)

\* openLibraryService.getBookByOLID, requests handled one after the other:
\* [books |-> table afterwards, found |-> id returned or 0 for null]
AdapterBookByOLID(bks, olid, resp) ==
    LET existing == BooksByOlid(bks, olid)
        row == NewBookFromWork(olid, resp.data)
    IN IF existing # {}
       THEN [books |-> bks, found |-> CHOOSE i \in existing : TRUE]
       ELSE IF ~resp.ok \/ InsertRejectsNaN(resp.data) \/ UniqueViolation(bks, row)
       THEN [books |-> bks, found |-> 0]
       ELSE [books |-> Append(bks, row), found |-> Len(bks) + 1]

\* DatabaseStorage.getBookByOLID: every outcome the Open Library response allows
getBookByOLID(bks, olid) ==
    LET local == BooksByOlid(bks, olid)
    IN IF local # {}
       THEN {[books |-> bks, found |-> CHOOSE i \in local : TRUE, extCalled |-> FALSE]}
       ELSE {LET got == AdapterBookByOLID(bks, olid, resp)
                 again == BooksByOlid(got.books, olid)
             IN [books |-> got.books,
                 found |-> IF got.found # 0 /\ again # {}
                           THEN CHOOSE i \in again : TRUE ELSE 0,
                 extCalled |-> TRUE]
             : resp \in WorkResponses}

-----------------------------------------------------------------------------
(* Catalog store queries: DatabaseStorage.                                 *)
(* A query without ORDER BY returns its rows in id order, and ORDER BY     *)
(* keeps rows of equal key in id order (a sequential scan, a stable sort). *)

RECURSIVE FilterIds(_, _, _)
\* the ids from..Len(bks), ascending, that satisfy the row test
FilterIds(bks, from, keep) ==
    IF from > Len(bks) THEN <<>>
    ELSE (IF keep[from] THEN <<from>> ELSE <<>>) \o FilterIds(bks, from + 1, keep)

\* .limit(limit).offset(offset)
Page(ids, limit, offset) ==
    SubSeq(ids, offset + 1, Min(Len(ids), offset + limit))

\* title ILIKE %query% OR author ILIKE %query%
SearchMatches(bks, query) ==
    FilterIds(bks, 1, [i \in 1..Len(bks) |->
        ILikeContains(bks[i].title, query) \/ ILikeContains(bks[i].author, query)])

\* LOWER(genre) = LOWER(category); a NULL genre matches nothing
CategoryMatches(bks, category) ==
    FilterIds(bks, 1, [i \in 1..Len(bks) |->
        bks[i].genre # <<>> /\ LowerText(bks[i].genre) = LowerText(category)])

\* a catch block that returns nothing
CatchFallbackNone(matches, limit, offset) == <<>>

\* catch (error): the local query once more, with the same limit and offset
CatchFallback(matches, limit, offset) == Page(matches, limit, offset)

\* the comparison off by one
EnoughLocalStrict(n, limit) == n > limit

\* if (localBooks.length >= limit) return localBooks
EnoughLocal(n, limit) == n >= limit

RECURSIVE DropSeenOlids(_, _, _)
\* openLibraryBooks.filter(book => !seenOlids.has(book.olid))
DropSeenOlids(bks, ids, seen) ==
    IF ids = <<>> THEN <<>>
    ELSE (IF bks[Head(ids)].olid \in seen THEN <<>> ELSE <<Head(ids)>>)
         \o DropSeenOlids(bks, Tail(ids), seen)

Olids(bks, ids) == {bks[ids[i]].olid : i \in 1..Len(ids)}

\* Math.max(localCount, 1000) and Math.max(localCount, 100)
SearchCountFloor == 1000
CategoryCountFloor == 100
searchBooksCount(bks, query) == Max(Len(SearchMatches(bks, query)), SearchCountFloor)
getBooksByCategoryCount(bks, category) ==
    Max(Len(CategoryMatches(bks, category)), CategoryCountFloor)

\* DatabaseStorage.searchBooks: every outcome the Open Library response allows,
\* [books |-> table afterwards, items |-> ids returned, extCalled |-> adapter used]
searchBooks(bks, query, limit, offset) ==
    LET localBooks == Page(SearchMatches(bks, query), limit, offset)
    IN IF EnoughLocal(Len(localBooks), limit)
       THEN {[books |-> bks, items |-> localBooks, extCalled |-> FALSE,
              extFailed |-> FALSE]}
       ELSE {IF resp.ok
             THEN LET got == processOpenLibraryResults(bks, resp.docs)
                      filtered == DropSeenOlids(got.books, got.processed,
                                                Olids(bks, localBooks))
                      all == localBooks \o filtered
                  IN [books |-> got.books,
                      items |-> SubSeq(all, 1, Min(Len(all), limit)),
                      extCalled |-> TRUE, extFailed |-> FALSE]
             ELSE [books |-> bks,
                   items |-> CatchFallback(SearchMatches(bks, query), limit, offset),
                   extCalled |-> TRUE, extFailed |-> TRUE]
             : resp \in ExternalResponses}

\* DatabaseStorage.getBooksByCategory
getBooksByCategory(bks, category, limit, offset) ==
    LET localBooks == Page(CategoryMatches(bks, category), limit, offset)
        missing == limit - Len(localBooks)
    IN IF EnoughLocal(Len(localBooks), limit)
       THEN {[books |-> bks, items |-> localBooks, extCalled |-> FALSE,
              extFailed |-> FALSE]}
       ELSE {IF resp.ok
             THEN LET got == processOpenLibraryResults(bks, resp.docs)
                  IN [books |-> got.books,
                      items |-> localBooks \o
                                SubSeq(got.processed, 1,
                                       Min(Len(got.processed), missing)),
                      extCalled |-> TRUE, extFailed |-> FALSE]
             ELSE [books |-> bks,
                   items |-> CatchFallback(CategoryMatches(bks, category),
                                           limit, offset),
                   extCalled |-> TRUE, extFailed |-> TRUE]
             : resp \in ExternalResponses}

RECURSIVE InsertByRating(_, _, _)
\* id placed after every id of rating >= its own (ORDER BY rating DESC)
InsertByRating(bks, sorted, id) ==
    IF sorted = <<>> THEN <<id>>
    ELSE IF bks[Head(sorted)].rating >= bks[id].rating
         THEN <<Head(sorted)>> \o InsertByRating(bks, Tail(sorted), id)
         ELSE <<id>> \o sorted

RECURSIVE OrderByRatingDesc(_, _)
\* the ids 1..n ordered by rating descending
OrderByRatingDesc(bks, n) ==
    IF n = 0 THEN <<>> ELSE InsertByRating(bks, OrderByRatingDesc(bks, n - 1), n)

RECURSIVE UniqueByOlid(_, _, _)
\* Array.from(new Map(combined.map(book => [book.olid, book])).values())
UniqueByOlid(bks, ids, seen) ==
    IF ids = <<>> THEN <<>>
    ELSE IF bks[Head(ids)].olid \in seen
         THEN UniqueByOlid(bks, Tail(ids), seen)
         ELSE <<Head(ids)>>
              \o UniqueByOlid(bks, Tail(ids), seen \cup {bks[Head(ids)].olid})

TrendingLocal(bks, limit) == Page(OrderByRatingDesc(bks, Len(bks)), limit, 0)

\* DatabaseStorage.getTrendingBooks
getTrendingBooks(bks, limit) ==
    LET localBooks == TrendingLocal(bks, limit)
    IN IF EnoughLocal(Len(localBooks), limit) /\ bks[localBooks[1]].rating > 0
       THEN {[books |-> bks, items |-> localBooks, extCalled |-> FALSE,
              extFailed |-> FALSE]}
       ELSE {IF resp.ok
             THEN LET got == processOpenLibraryResults(bks, resp.docs)
                      uniqueBooks == UniqueByOlid(got.books,
                                                  localBooks \o got.processed, {})
                  IN [books |-> got.books,
                      items |-> SubSeq(uniqueBooks, 1, Min(Len(uniqueBooks), limit)),
                      extCalled |-> TRUE, extFailed |-> FALSE]
             ELSE [books |-> bks,
                   items |-> CatchFallback(OrderByRatingDesc(bks, Len(bks)), limit, 0),
                   extCalled |-> TRUE, extFailed |-> TRUE]
             : resp \in ExternalResponses}

-----------------------------------------------------------------------------
(* Rating aggregator: DatabaseStorage *)

\* getUserRating: the ids of the rows of (userId, bookId); the code takes the
\* first row the database returns
RatingRowIds(rows, userId, bookId) ==
    {i \in 1..Len(rows) : rows[i].userId = userId /\ rows[i].bookId = bookId}

\* rows of a book, for AVG and COUNT(*) ... GROUP BY book_id
BookRatingIds(rows, bookId) == {i \in 1..Len(rows) : rows[i].bookId = bookId}

RECURSIVE SumRatings(_, _)
SumRatings(rows, ids) ==
    IF ids = {} THEN 0
    ELSE LET i == CHOOSE j \in ids : TRUE
         IN rows[i].rating + SumRatings(rows, ids \ {i})

\* Math.round(x) for x = sum / n >= 0: the nearest integer, halves up
MathRound(sum, n) == (2 * sum + n) \div (2 * n)

\* the aggregate row read by updateBookRating: <<>> when the book has no rows
AggregateOf(rows, bookId) ==
    LET ids == BookRatingIds(rows, bookId)
    IN IF ids = {} THEN <<>>
       ELSE << [sum |-> SumRatings(rows, ids), count |-> Cardinality(ids)] >>

\* the value written to books.rating, in tenths: Math.round(avgRating)
AggregateRating(agg) == 10 * MathRound(agg.sum, agg.count)

\* a running counter instead of COUNT(*): every write adds one
WriteAggregateIncrement(bks, bookId, agg) ==
    IF bookId \in 1..Len(bks)
    THEN [bks EXCEPT ![bookId].rating = 10 * MathRound(agg.sum, agg.count),
                     ![bookId].ratingCount = @ + 1]
    ELSE bks

\* the update without its WHERE: every row takes the aggregate
WriteAggregateEveryRow(bks, bookId, agg) ==
    [i \in 1..Len(bks) |-> [bks[i] EXCEPT !.rating = AggregateRating(agg),
                                          !.ratingCount = agg.count]]

\* UPDATE books SET rating, ratingCount WHERE id = bookId
WriteAggregate(bks, bookId, agg) ==
    IF bookId \in 1..Len(bks)
    THEN [bks EXCEPT ![bookId].rating = AggregateRating(agg),
                     ![bookId].ratingCount = agg.count]
    ELSE bks

\* an update that leaves a larger stored ratingCount alone
updateBookRatingKeepLarger(bks, rows, bookId) ==
    LET result == AggregateOf(rows, bookId)
    IN IF Len(result) = 0 THEN bks
       ELSE IF bookId \in 1..Len(bks) /\ bks[bookId].ratingCount > result[1].count
       THEN bks
       ELSE WriteAggregate(bks, bookId, result[1])

updateBookRating(bks, rows, bookId) ==
    LET result == AggregateOf(rows, bookId)
    IN IF Len(result) > 0 THEN WriteAggregate(bks, bookId, result[1]) ELSE bks

\* UPDATE user_ratings SET rating WHERE id = existing.id
UpdateRatingRow(rows, id, value) == [rows EXCEPT ![id].rating = value]

\* INSERT INTO user_ratings: the table has no unique key over (user_id, book_id);
\* rated_at takes its default, now()
InsertRatingRow(rows, userId, bookId, value) ==
    Append(rows, [userId |-> userId, bookId |-> bookId, rating |-> value,
                  ratedAt |-> now])

\* createOrUpdateUserRating without the branch on existingRating: always inserts
RatedTablesAlwaysInsert(rows, bks, u, b, v) ==
    LET r == Append(rows, [userId |-> u, bookId |-> b, rating |-> v,
                           ratedAt |-> now])
    IN {<<r, updateBookRating(bks, r, b)>>}

\* DatabaseStorage.createOrUpdateUserRating then the route's getBook: the
\* successor tables <<user_ratings, books>> for each row getUserRating may return
RatedTables(rows, bks, u, b, v) ==
    LET existing == RatingRowIds(rows, u, b)
        after == IF existing # {}
                 THEN {UpdateRatingRow(rows, id, v) : id \in existing}
                 ELSE {InsertRatingRow(rows, u, b, v)}
    IN {<<r, updateBookRating(bks, r, b)>> : r \in after}

-----------------------------------------------------------------------------
(* Rating aggregator: MemStorage *)

\* Math.round(averageRating * 10) / 10, in tenths
MemAggregateRating(sum, n) == MathRound(10 * sum, n)

MemUpdateBookRating(bks, rows, bookId) ==
    LET ids == BookRatingIds(rows, bookId)
    IN IF bookId \notin 1..Len(bks) \/ ids = {} THEN bks
       ELSE [bks EXCEPT
                ![bookId].rating = MemAggregateRating(SumRatings(rows, ids),
                                                     Cardinality(ids)),
                ![bookId].ratingCount = Cardinality(ids)]

\* MemStorage.createOrUpdateUserRating: find() returns the first matching row
MemRatedRows(rows, u, b, v) ==
    LET existing == RatingRowIds(rows, u, b)
    IN IF existing # {}
       THEN LET id == CHOOSE i \in existing : \A j \in existing : i <= j
            IN [rows EXCEPT ![id].rating = v, ![id].ratedAt = now]
       ELSE Append(rows, [userId |-> u, bookId |-> b, rating |-> v,
                          ratedAt |-> now])

-----------------------------------------------------------------------------
(* POST /api/books/:id/rate *)

\* the range check with its lower bound forgotten
RatingAboveFive(value) == value > 5

\* the route's range check
RatingOutOfRange(value) == value < 1 \/ value > 5

RateResponse(status, u, b, v) ==
    IF status = 200
    THEN [op |-> "rate", status |-> 200, userId |-> u, bookId |-> b, value |-> v]
    ELSE [op |-> "rate", status |-> status, value |-> v]

\* the whole handler, with both storage classes fed the same call
RateRequest(u, b, v) ==
    /\ IF RatingOutOfRange(v)
       THEN /\ last' = RateResponse(400, u, b, v)
            /\ UNCHANGED <<books, userRatings, memVars>>
       ELSE /\ RatingRowIds(userRatings, u, b) = {} => Len(userRatings) < MaxRatings
            /\ \E t \in RatedTables(userRatings, books, u, b, v) :
                   /\ userRatings' = t[1]
                   /\ books' = t[2]
            /\ memUserRatings' = MemRatedRows(memUserRatings, u, b, v)
            /\ memBooks' = MemUpdateBookRating(memBooks, memUserRatings', b)
            /\ last' = RateResponse(200, u, b, v)
    /\ UNCHANGED <<savedBooks, bookComments, procs>>
    /\ UNCHANGED authVars

Next ==
    \E u \in Users, b \in BookIds, v \in RateInputs : RateRequest(u, b, v)

Spec == Init /\ [][Next]_vars

-----------------------------------------------------------------------------
(* POST /api/books/:id/rate, two requests interleaved at their awaits *)

ValidRateInputs == {v \in RateInputs : ~RatingOutOfRange(v)}

\* the handler up to its first await: parse, range check, call the storage
RateStart(r, u, b, v) ==
    /\ procs[r].pc = "idle"
    /\ ~RatingOutOfRange(v)
    /\ procs' = [procs EXCEPT ![r] =
                    [pc |-> "rateLookup", op |-> "rate", userId |-> u, bookId |-> b,
                     value |-> v, existing |-> 0, agg |-> <<>>]]
    /\ UNCHANGED <<books, userRatings, savedBooks, bookComments, memVars, last>>
    /\ UNCHANGED authVars

\* await this.getUserRating(userId, bookId): 0 stands for undefined
RateLookup(r) ==
    /\ procs[r].pc = "rateLookup"
    /\ LET ids == RatingRowIds(userRatings, procs[r].userId, procs[r].bookId)
       IN \E id \in (IF ids = {} THEN {0} ELSE ids) :
              procs' = [procs EXCEPT ![r].existing = id, ![r].pc = "rateWrite"]
    /\ UNCHANGED <<books, userRatings, savedBooks, bookComments, memVars, last>>
    /\ UNCHANGED authVars

\* await db.update(userRatings)... or await db.insert(userRatings)...
RateWrite(r) ==
    /\ procs[r].pc = "rateWrite"
    /\ userRatings' =
          IF procs[r].existing # 0
          THEN UpdateRatingRow(userRatings, procs[r].existing, procs[r].value)
          ELSE InsertRatingRow(userRatings, procs[r].userId, procs[r].bookId,
                               procs[r].value)
    /\ procs' = [procs EXCEPT ![r].pc = "rateAggRead"]
    /\ UNCHANGED <<books, savedBooks, bookComments, memVars, last>>
    /\ UNCHANGED authVars

\* updateBookRating: await db.select({avgRating, count})...
RateAggRead(r) ==
    /\ procs[r].pc = "rateAggRead"
    /\ LET result == AggregateOf(userRatings, procs[r].bookId)
       IN procs' = [procs EXCEPT
                       ![r].agg = result,
                       ![r].pc = IF Len(result) > 0 THEN "rateAggWrite"
                                 ELSE "rateRespond"]
    /\ UNCHANGED <<books, userRatings, savedBooks, bookComments, memVars, last>>
    /\ UNCHANGED authVars

\* updateBookRating: await db.update(books).set({rating, ratingCount})...
RateAggWrite(r) ==
    /\ procs[r].pc = "rateAggWrite"
    /\ books' = WriteAggregate(books, procs[r].bookId, procs[r].agg[1])
    /\ procs' = [procs EXCEPT ![r].pc = "rateRespond"]
    /\ UNCHANGED <<userRatings, savedBooks, bookComments, memVars, last>>
    /\ UNCHANGED authVars

\* await storage.getBook(bookId); res.json({rating, book})
RateRespond(r) ==
    /\ procs[r].pc = "rateRespond"
    /\ last' = RateResponse(200, procs[r].userId, procs[r].bookId, procs[r].value)
    /\ procs' = [procs EXCEPT ![r].pc = "done"]
    /\ UNCHANGED <<books, userRatings, savedBooks, bookComments, memVars>>
    /\ UNCHANGED authVars

NextConc ==
    \E r \in Requests :
        \/ \E u \in Users, b \in BookIds, v \in ValidRateInputs : RateStart(r, u, b, v)
        \/ RateLookup(r)
        \/ RateWrite(r)
        \/ RateAggRead(r)
        \/ RateAggWrite(r)
        \/ RateRespond(r)

SpecConc == Init /\ [][NextConc]_vars

-----------------------------------------------------------------------------
(* GET /api/books/search and GET /api/books/category/:category *)

\* ?q= values; <<>> is a request without q
SearchQueries == {<<>>, <<"e">>, <<"d", "u">>}
\* :category values
Categories == {Fantasy, <<"f", "a">>, <<"X", "x">>}
Limits == 1..MaxLimit
Offsets == {0, 1}

ListResponse(op, arg, limit, offset, out, total) ==
    [op |-> op, status |-> 200, arg |-> arg, limit |-> limit, offset |-> offset,
     items |-> out.items, extCalled |-> out.extCalled,
     extFailed |-> out.extFailed, totalBooks |-> total]

SearchRequest(query, limit, offset) ==
    /\ IF query = <<>>
       THEN /\ last' = [op |-> "search", status |-> 400]
            /\ UNCHANGED books
       ELSE \E out \in searchBooks(books, query, limit, offset) :
               /\ Len(out.books) <= MaxBooks
               /\ books' = out.books
               /\ last' = ListResponse("search", query, limit, offset, out,
                                       searchBooksCount(out.books, query))
    /\ UNCHANGED <<userRatings, savedBooks, bookComments, memVars, procs>>
    /\ UNCHANGED authVars

CategoryRequest(category, limit, offset) ==
    /\ \E out \in getBooksByCategory(books, category, limit, offset) :
           /\ Len(out.books) <= MaxBooks
           /\ books' = out.books
           /\ last' = ListResponse("category", category, limit, offset, out,
                                   getBooksByCategoryCount(out.books, category))
    /\ UNCHANGED <<userRatings, savedBooks, bookComments, memVars, procs>>
    /\ UNCHANGED authVars

\* GET /api/books/trending
TrendingRequest(limit) ==
    /\ \E out \in getTrendingBooks(books, limit) :
           /\ Len(out.books) <= MaxBooks
           /\ books' = out.books
           /\ last' = [op |-> "trending", status |-> 200, limit |-> limit,
                       items |-> out.items, extCalled |-> out.extCalled,
                       extFailed |-> out.extFailed]
    /\ UNCHANGED <<userRatings, savedBooks, bookComments, memVars, procs>>
    /\ UNCHANGED authVars

\* storage.getBookByOLID(olid)
BookByOlidRequest(olid) ==
    /\ \E out \in getBookByOLID(books, olid) :
           /\ Len(out.books) <= MaxBooks
           /\ books' = out.books
           /\ last' = [op |-> "byOlid", status |-> IF out.found = 0 THEN 404 ELSE 200,
                       arg |-> olid, found |-> out.found, extCalled |-> out.extCalled]
    /\ UNCHANGED <<userRatings, savedBooks, bookComments, memVars, procs>>
    /\ UNCHANGED authVars

NextCatalog ==
    \/ \E q \in SearchQueries, l \in Limits, o \in Offsets : SearchRequest(q, l, o)
    \/ \E c \in Categories, l \in Limits, o \in Offsets : CategoryRequest(c, l, o)
    \/ \E l \in Limits : TrendingRequest(l)
    \/ \E o \in OlidInputs : BookByOlidRequest(o)

SpecCatalog == Init /\ [][NextCatalog]_vars

-----------------------------------------------------------------------------
(* Recommendations: DatabaseStorage.getRecommendedBooks, and the requests  *)
(* that write the signals it reads.                                        *)

MaxSaved == 2       \* rows of saved_books
MaxComments == 1    \* rows of book_comments

\* .slice(0, 3) of the sorted genre and author entries
TopCount == 3

\* userRatedBooks / userSavedBooks / userCommentedBooks mapped to bookId
RatedIds(ratings, u) ==
    {ratings[i].bookId : i \in {j \in 1..Len(ratings) : ratings[j].userId = u}}
SavedIds(saved, u) ==
    {saved[i].bookId : i \in {j \in 1..Len(saved) : saved[j].userId = u}}
CommentedIds(comments, u) ==
    {comments[i].bookId : i \in {j \in 1..Len(comments) : comments[j].userId = u}}

\* new Set([...rated, ...saved, ...commented])
InteractedBookIds(ratings, saved, comments, u) ==
    RatedIds(ratings, u) \cup SavedIds(saved, u) \cup CommentedIds(comments, u)

\* userRatedBooks.filter(b => b.rating >= 4).map(b => b.bookId)
HighlyRatedBookIds(ratings, u) ==
    {ratings[i].bookId :
        i \in {j \in 1..Len(ratings) : ratings[j].userId = u /\ ratings[j].rating >= 4}}

RECURSIVE KeysInOrder(_, _)
\* the keys of a frequency record: the distinct non-empty values, in the
\* order the forEach first meets them
KeysInOrder(vals, seen) ==
    IF vals = <<>> THEN <<>>
    ELSE IF Head(vals) = <<>> \/ Head(vals) \in seen
         THEN KeysInOrder(Tail(vals), seen)
         ELSE <<Head(vals)>> \o KeysInOrder(Tail(vals), seen \cup {Head(vals)})

RECURSIVE Frequency(_, _, _, _)
\* frequency[key]: weight 2 for a highly rated book, 1 for any other
Frequency(key, ids, vals, highly) ==
    IF ids = <<>> THEN 0
    ELSE (IF Head(vals) = key THEN (IF Head(ids) \in highly THEN 2 ELSE 1) ELSE 0)
         + Frequency(key, Tail(ids), Tail(vals), highly)

RECURSIVE InsertByFrequency(_, _, _)
InsertByFrequency(freq, sorted, key) ==
    IF sorted = <<>> THEN <<key>>
    ELSE IF freq[Head(sorted)] >= freq[key]
         THEN <<Head(sorted)>> \o InsertByFrequency(freq, Tail(sorted), key)
         ELSE <<key>> \o sorted

RECURSIVE SortByFrequency(_, _, _)
\* Object.entries(frequency).sort((a, b) => b[1] - a[1]), a stable sort
SortByFrequency(freq, keys, n) ==
    IF n = 0 THEN <<>>
    ELSE InsertByFrequency(freq, SortByFrequency(freq, keys, n - 1), keys[n])

DigitChars == <<"0", "1", "2", "3", "4", "5", "6", "7", "8", "9">>

\* a property key that is an array index: a canonical decimal numeral
IsArrayIndex(key) ==
    /\ key # <<>>
    /\ \A i \in 1..Len(key) : \E d \in 1..10 : DigitChars[d] = key[i]
    /\ (Len(key) = 1 \/ key[1] # "0")

RECURSIVE IndexValue(_)
IndexValue(key) ==
    IF key = <<>> THEN 0
    ELSE IndexValue(SubSeq(key, 1, Len(key) - 1)) * 10
         + (CHOOSE d \in 0..9 : DigitChars[d + 1] = key[Len(key)])

RECURSIVE AscendingIndexKeys(_)
AscendingIndexKeys(keys) ==
    IF keys = {} THEN <<>>
    ELSE LET least == CHOOSE k \in keys :
                          \A h \in keys : IndexValue(k) <= IndexValue(h)
         IN <<least>> \o AscendingIndexKeys(keys \ {least})

\* Object.entries(frequency): the keys that are array indices in ascending
\* numeric order, then the other keys in the order they were created
ObjectEntries(keys) ==
    AscendingIndexKeys({keys[i] : i \in {j \in 1..Len(keys) : IsArrayIndex(keys[j])}})
    \o SelectSeq(keys, LAMBDA k : ~IsArrayIndex(k))

\* topGenres / topAuthors, vals the genre or the author of each interacted book
TopKeys(ids, vals, highly) ==
    LET keys == ObjectEntries(KeysInOrder(vals, {}))
        freq == [k \in {keys[i] : i \in 1..Len(keys)} |->
                    Frequency(k, ids, vals, highly)]
        sorted == SortByFrequency(freq, keys, Len(keys))
    IN SubSeq(sorted, 1, Min(Len(sorted), TopCount))

SeqToSet(sq) == {sq[i] : i \in 1..Len(sq)}

\* (genre = g1 OR ...) OR (author = a1 OR ...), the first .where of the query
PreferenceCondition(bks, i, topGenres, topAuthors) ==
    bks[i].genre \in SeqToSet(topGenres) \/ bks[i].author \in SeqToSet(topAuthors)

\* notInArray(books.id, excludeBookIds), the second .where of the query
ExcludeCondition(i, interacted) == i \notin interacted

\* query.where(a) followed by query.where(b): the query builder keeps one
\* where clause, and the later call replaces the earlier one
QueryWhere(first, second) == second

\* await query.orderBy(desc(books.rating)).limit(limit)
RecommendQuery(bks, interacted, topGenres, topAuthors, limit) ==
    LET ordered == OrderByRatingDesc(bks, Len(bks))
        hits == SelectSeq(ordered,
                    LAMBDA i : QueryWhere(
                        PreferenceCondition(bks, i, topGenres, topAuthors),
                        ExcludeCondition(i, interacted)))
    IN SubSeq(hits, 1, Min(Len(hits), limit))

\* a filter that drops only the interacted books
KeepTrendingNotInteracted(i, recs, interacted) == i \notin interacted

\* !existingIds.has(book.id) && !interactedBookIds.has(book.id)
KeepTrending(i, recs, interacted) ==
    i \notin SeqToSet(recs) /\ i \notin interacted

\* the part after the query: top up from trending(limit * 2), and
\* recommendations.length > 0 ? recommendations : this.getTrendingBooks(limit)
RecommendTopUp(bks, recs, interacted, limit) ==
    IF Len(recs) >= limit
    THEN {[books |-> bks, items |-> recs]}
    ELSE UNION {
           LET filteredAll == SelectSeq(t.items,
                                  LAMBDA i : KeepTrending(i, recs, interacted))
               filteredTrending ==
                   SubSeq(filteredAll, 1, Min(Len(filteredAll), limit - Len(recs)))
               recommendations == recs \o filteredTrending
           IN IF Len(recommendations) > 0
              THEN {[books |-> t.books, items |-> recommendations]}
              ELSE {[books |-> f.books, items |-> f.items]
                      : f \in getTrendingBooks(t.books, limit)}
           : t \in getTrendingBooks(bks, limit * 2)}

\* the fallback asking for twice the list
TrendingFallbackDouble(bks, limit) ==
    {[books |-> t.books, items |-> t.items] : t \in getTrendingBooks(bks, limit * 2)}

\* the trending list returned as it is
TrendingFallback(bks, limit) ==
    {[books |-> t.books, items |-> t.items] : t \in getTrendingBooks(bks, limit)}

\* DatabaseStorage.getRecommendedBooks: the set of [books, items] outcomes
getRecommendedBooks(bks, ratings, saved, comments, userId, limit) ==
    LET interacted == InteractedBookIds(ratings, saved, comments, userId)
        highly == HighlyRatedBookIds(ratings, userId)
        interactedBooks == SelectSeq([i \in 1..Len(bks) |-> i],
                                     LAMBDA i : i \in interacted)
        genres == [k \in 1..Len(interactedBooks) |-> bks[interactedBooks[k]].genre]
        authors == [k \in 1..Len(interactedBooks) |-> bks[interactedBooks[k]].author]
        topGenres == TopKeys(interactedBooks, genres, highly)
        topAuthors == TopKeys(interactedBooks, authors, highly)
    IN IF interacted = {} THEN TrendingFallback(bks, limit)
       ELSE IF interactedBooks = <<>> THEN TrendingFallback(bks, limit)
       ELSE IF topGenres = <<>> /\ topAuthors = <<>>
       THEN TrendingFallback(bks, limit)
       ELSE RecommendTopUp(bks,
                RecommendQuery(bks, interacted, topGenres, topAuthors, limit),
                interacted, limit)

\* storage.isBookSaved(userId, bookId)
isBookSaved(saved, u, b) ==
    \E i \in 1..Len(saved) : saved[i].userId = u /\ saved[i].bookId = b

SaveResponse(status, u, b) ==
    [op |-> "save", status |-> status, userId |-> u, bookId |-> b]

\* POST /api/books/:id/save
SaveRequest(u, b) ==
    /\ IF b \notin 1..Len(books)
       THEN /\ last' = SaveResponse(404, u, b)
            /\ UNCHANGED savedBooks
       ELSE IF isBookSaved(savedBooks, u, b)
       THEN /\ last' = SaveResponse(400, u, b)
            /\ UNCHANGED savedBooks
       ELSE /\ Len(savedBooks) < MaxSaved
            /\ savedBooks' = Append(savedBooks, [userId |-> u, bookId |-> b])
            /\ last' = SaveResponse(201, u, b)
    /\ UNCHANGED <<books, userRatings, bookComments, memVars, procs>>
    /\ UNCHANGED authVars

\* POST /api/books/:id/comments
CommentRequest(u, b) ==
    /\ Len(bookComments) < MaxComments
    /\ bookComments' = Append(bookComments, [userId |-> u, bookId |-> b])
    /\ last' = [op |-> "comment", status |-> 201]
    /\ UNCHANGED <<books, userRatings, savedBooks, memVars, procs>>
    /\ UNCHANGED authVars

\* GET /api/recommendations?limit
RecommendRequest(u, limit) ==
    /\ \E out \in getRecommendedBooks(books, userRatings, savedBooks, bookComments,
                                      u, limit) :
           /\ Len(out.books) <= MaxBooks
           /\ books' = out.books
           /\ last' = [op |-> "recommend", status |-> 200, userId |-> u,
                       limit |-> limit, items |-> out.items]
    /\ UNCHANGED <<userRatings, savedBooks, bookComments, memVars, procs>>
    /\ UNCHANGED authVars

\* values a signal-writing rate request carries: a low and a high rating
SignalRatings == {2, 4}
\* the user who rates, saves and comments; the other user has no history
SignalUsers == {1}

NextRecommend ==
    \/ \E u \in SignalUsers, b \in BookIds, v \in SignalRatings : RateRequest(u, b, v)
    \/ \E u \in SignalUsers, b \in BookIds : SaveRequest(u, b)
    \/ \E u \in SignalUsers, b \in BookIds : CommentRequest(u, b)
    \/ \E u \in Users, l \in Limits : RecommendRequest(u, l)

SpecRecommend == Init /\ [][NextRecommend]_vars

-----------------------------------------------------------------------------
(* A catalog request seen from the await on Open Library: the local query, *)
(* then, when the page is short, the fetch, which returns when Open        *)
(* Library answers.  The fetch is node-fetch without a signal or timeout.  *)

\* the request whose progress is followed
CatalogCallers == {1}
CatalogOps == {"search", "category", "trending"}

\* the outcomes of the storage method the request calls
CatalogOutcomes(bks, op, arg, limit, offset) ==
    IF op = "search" THEN searchBooks(bks, arg, limit, offset)
    ELSE IF op = "category" THEN getBooksByCategory(bks, arg, limit, offset)
    ELSE getTrendingBooks(bks, limit)

\* the route has read its parameters and calls the storage method
CatalogStart(r, op, arg, limit, offset) ==
    /\ procs[r].pc \in {"idle", "done"}
    /\ procs' = [procs EXCEPT ![r] =
                    [pc |-> "local", op |-> op, arg |-> arg, limit |-> limit,
                     offset |-> offset, items |-> <<>>]]
    /\ UNCHANGED <<books, userRatings, savedBooks, bookComments, memVars, last>>
    /\ UNCHANGED authVars

\* const localBooks = await db.select()...; return localBooks when it is
\* enough, else await fetch(...)
CatalogLocal(r) ==
    /\ procs[r].pc = "local"
    /\ LET p == procs[r]
           outs == CatalogOutcomes(books, p.op, p.arg, p.limit, p.offset)
       IN IF \E out \in outs : ~out.extCalled
          THEN \E out \in outs :
                   procs' = [procs EXCEPT ![r].pc = "done", ![r].items = out.items]
          ELSE procs' = [procs EXCEPT ![r].pc = "fetching"]
    /\ UNCHANGED <<books, userRatings, savedBooks, bookComments, memVars, last>>
    /\ UNCHANGED authVars

\* Open Library answers or the connection fails: the fetch settles and the
\* rest of the storage method runs
ExternalAnswers(r) ==
    /\ procs[r].pc = "fetching"
    /\ LET p == procs[r]
       IN \E out \in CatalogOutcomes(books, p.op, p.arg, p.limit, p.offset) :
              /\ out.extCalled
              /\ Len(out.books) <= MaxBooks
              /\ books' = out.books
              /\ procs' = [procs EXCEPT ![r].pc = "done", ![r].items = out.items]
    /\ UNCHANGED <<userRatings, savedBooks, bookComments, memVars, last>>
    /\ UNCHANGED authVars

NextExternalWait ==
    \/ \E r \in CatalogCallers, q \in SearchQueries \ {<<>>},
          l \in Limits, o \in Offsets : CatalogStart(r, "search", q, l, o)
    \/ \E r \in CatalogCallers, c \in Categories,
          l \in Limits, o \in Offsets : CatalogStart(r, "category", c, l, o)
    \/ \E r \in CatalogCallers, l \in Limits : CatalogStart(r, "trending", <<>>, l, 0)
    \/ \E r \in CatalogCallers : CatalogLocal(r)
    \/ \E r \in CatalogCallers : ExternalAnswers(r)

\* the server runs the request's own steps; nothing obliges Open Library to
\* answer, so ExternalAnswers carries no fairness condition
SpecExternalWait ==
    /\ Init
    /\ [][NextExternalWait]_vars
    /\ \A r \in CatalogCallers : WF_vars(CatalogLocal(r))

-----------------------------------------------------------------------------
(* The provisional rating as a function of the foreign record: the inputs  *)
(* are drawn in the initial state and the adapter's record builders are    *)
(* applied to them.                                                        *)

\* first_publish_year / first_publish_date: none (0), old, recent, this
\* year, and years after the current one
PublishYears == {0, 1900, 1975, 2000, 2020, 2025, 2026, 2035}
\* edition_count / revision: none (0), below, at and above the caps
EditionCounts == {0, 1, 5, 20, 30, 100}
RecordSources == {"listing", "work"}

InitProvisional ==
    /\ books = SeedBooks
    /\ userRatings = <<>>
    /\ savedBooks = <<>>
    /\ bookComments = <<>>
    /\ memBooks = SeedBooks
    /\ memUserRatings = <<>>
    /\ procs = [r \in Requests |-> IdleProc]
    /\ users = SeedUsers
    /\ now = 0
    /\ tokensIssued = 0
    /\ last \in [op : {"record"}, status : {0}, source : RecordSources,
                 year : PublishYears, editions : EditionCounts]

\* the rating of the InsertBook the adapter builds from the record
ProvisionalRating(source, year, editions) ==
    IF source = "listing"
    THEN NewBookFromDoc([key |-> <<"", "works", "OL9W">>, title |-> <<"T">>,
                         author_name |-> <<>>, first_publish_year |-> year,
                         subject |-> <<>>, edition_count |-> editions]).rating
    ELSE NewBookFromWork("OL9W",
                         [title |-> <<"T">>, authors |-> <<>>, subjects |-> <<>>,
                          first_publish_date |-> [year |-> year,
                                                  leadingText |-> FALSE],
                          revision |-> editions]).rating

BuildRecord ==
    /\ last.op = "record"
    /\ last' = [op |-> "built", status |-> 0, source |-> last.source,
                year |-> last.year, editions |-> last.editions,
                rating |-> ProvisionalRating(last.source, last.year, last.editions)]
    /\ UNCHANGED <<books, userRatings, savedBooks, bookComments, memVars, procs>>
    /\ UNCHANGED authVars

NextProvisional == BuildRecord

SpecProvisional == InitProvisional /\ [][NextProvisional]_vars

-----------------------------------------------------------------------------
(* The top genres (or authors) as a function of the interacted books: the  *)
(* books are drawn in the initial state, each with its genre and with the  *)
(* rating the user gave it, and the steps of getRecommendedBooks that      *)
(* compute topGenres are applied to them.                                  *)

MaxInteracted == 4  \* interacted books of the user

\* book.genre: three genres, a genre named by a number and the empty value
GenreValues == {<<>>, <<"A">>, <<"B">>, <<"C">>, <<"7">>}
\* the rating the user gave the book; 0: saved or commented only
SignalValues == {0, 3, 4}

InitTopKeys ==
    /\ books = SeedBooks
    /\ userRatings = <<>>
    /\ savedBooks = <<>>
    /\ bookComments = <<>>
    /\ memBooks = SeedBooks
    /\ memUserRatings = <<>>
    /\ procs = [r \in Requests |-> IdleProc]
    /\ users = SeedUsers
    /\ now = 0
    /\ tokensIssued = 0
    /\ \E n \in 0..MaxInteracted :
          last \in [op : {"interacted"}, status : {0},
                    genres : [1..n -> GenreValues],
                    signals : [1..n -> SignalValues]]

\* the rows of user_ratings the signals stand for, the user being user 1
SignalRows(signals) ==
    SelectSeq([i \in 1..Len(signals) |->
                  [userId |-> 1, bookId |-> i, rating |-> signals[i]]],
              LAMBDA row : row.rating > 0)

\* highlyRatedBookIds, the frequency records, sort, slice and filter
ComputeTopKeys ==
    /\ last.op = "interacted"
    /\ last' = [op |-> "topKeys", status |-> 0, genres |-> last.genres,
                signals |-> last.signals,
                top |-> TopKeys([i \in 1..Len(last.genres) |-> i], last.genres,
                                HighlyRatedBookIds(SignalRows(last.signals), 1))]
    /\ UNCHANGED <<books, userRatings, savedBooks, bookComments, memVars, procs>>
    /\ UNCHANGED authVars

NextTopKeys == ComputeTopKeys

SpecTopKeys == InitTopKeys /\ [][NextTopKeys]_vars

-----------------------------------------------------------------------------
(* Every request that reads or writes the books table, one after the other: *)
(* the catalog requests, the rate request and the recommend request.        *)

\* the page asked for: the longest one, from the start
FramePages == {<<MaxLimit, 0>>}

NextFrame ==
    \/ \E q \in SearchQueries, p \in FramePages : SearchRequest(q, p[1], p[2])
    \/ \E c \in Categories, p \in FramePages : CategoryRequest(c, p[1], p[2])
    \/ \E p \in FramePages : TrendingRequest(p[1])
    \/ \E o \in OlidInputs : BookByOlidRequest(o)
    \/ \E u \in SignalUsers, b \in BookIds, v \in SignalRatings : RateRequest(u, b, v)
    \/ \E u \in SignalUsers, p \in FramePages : RecommendRequest(u, p[1])

SpecFrame == Init /\ [][NextFrame]_vars

-----------------------------------------------------------------------------
(* Rate requests with the clock running between them *)

MaxTime == 2  \* hours the clock runs

\* an hour passes
Tick ==
    /\ now < MaxTime
    /\ now' = now + 1
    /\ UNCHANGED <<books, userRatings, savedBooks, bookComments, memVars, last,
                   procs, users, tokensIssued>>

NextRatedAt ==
    \/ Tick
    \/ \E u \in Users, b \in BookIds, v \in RateInputs : RateRequest(u, b, v)

SpecRatedAt == Init /\ [][NextRatedAt]_vars

-----------------------------------------------------------------------------
(* Password reset: createPasswordResetToken, verifyPasswordResetToken and  *)
(* resetPassword of auth-utils, behind their three routes.  A token is 32  *)
(* random bytes: no value is generated twice, and the tokens are numbered  *)
(* in the order they are generated.  The requests that carry a token are   *)
(* interleaved at their awaits.                                            *)

MaxTokens == 2      \* tokens generated
TokenLifetime == 1  \* Date.now() + 3600000: one hour

\* verifyPasswordResetToken: the id of the user returned, 0 for null
verifyPasswordResetToken(us, token, at) ==
    LET rows == {i \in 1..Len(us) : token # 0 /\ us[i].resetPasswordToken = token}
    IN IF rows = {} THEN {0}
       ELSE {IF us[i].resetPasswordExpires # 0 /\ us[i].resetPasswordExpires < at
             THEN 0 ELSE i : i \in rows}

\* UPDATE users SET password, reset_password_token = NULL,
\* reset_password_expires = NULL WHERE id = user.id
resetPasswordRow(us, id, newPassword) ==
    [us EXCEPT ![id].password = newPassword,
               ![id].resetPasswordToken = 0,
               ![id].resetPasswordExpires = 0]

AuthProc(pc, op, token, password, user, result) ==
    [pc |-> pc, op |-> op, token |-> token, password |-> password,
     user |-> user, result |-> result]

\* POST /api/reset-password with createPasswordResetToken
RequestReset(email) ==
    /\ LET ids == {i \in 1..Len(users) : users[i].email = email}
       IN IF email = ""
          THEN /\ last' = [op |-> "requestReset", status |-> 400, token |-> 0]
               /\ UNCHANGED <<users, tokensIssued>>
          ELSE IF ids = {}
          THEN /\ last' = [op |-> "requestReset", status |-> 200, token |-> 0]
               /\ UNCHANGED <<users, tokensIssued>>
          ELSE /\ tokensIssued < MaxTokens
               /\ \E id \in ids :
                      users' = [users EXCEPT
                                  ![id].resetPasswordToken = tokensIssued + 1,
                                  ![id].resetPasswordExpires = now + TokenLifetime]
               /\ tokensIssued' = tokensIssued + 1
               /\ last' = [op |-> "requestReset", status |-> 200,
                           token |-> tokensIssued + 1]
    /\ UNCHANGED <<books, userRatings, savedBooks, bookComments, memVars, procs, now>>

\* GET /api/reset-password/:token up to its await
VerifyStart(r, token) ==
    /\ procs[r].pc = "idle"
    /\ procs' = [procs EXCEPT ![r] = AuthProc("verifySelect", "verify", token, "", 0, "none")]
    /\ UNCHANGED <<books, userRatings, savedBooks, bookComments, memVars, last, authVars>>

\* the select of verifyPasswordResetToken, the expiry check and the response
VerifyRun(r) ==
    /\ procs[r].pc = "verifySelect"
    /\ \E u \in verifyPasswordResetToken(users, procs[r].token, now) :
           /\ procs' = [procs EXCEPT ![r].pc = "idle",
                                     ![r].result = IF u = 0 THEN "fail" ELSE "ok"]
           /\ last' = [op |-> "verify", status |-> IF u = 0 THEN 400 ELSE 200,
                       token |-> procs[r].token]
    /\ UNCHANGED <<books, userRatings, savedBooks, bookComments, memVars, authVars>>

\* POST /api/reset-password/:token up to the select of resetPassword
ResetStart(r, token, password) ==
    /\ procs[r].pc = "idle"
    /\ IF password = ""
       THEN /\ procs' = [procs EXCEPT ![r] = AuthProc("idle", "reset", token, "", 0, "fail")]
            /\ last' = [op |-> "reset", status |-> 400, token |-> token]
       ELSE /\ procs' = [procs EXCEPT ![r] =
                            AuthProc("resetVerify", "reset", token, password, 0, "none")]
            /\ UNCHANGED last
    /\ UNCHANGED <<books, userRatings, savedBooks, bookComments, memVars, authVars>>

\* const user = await verifyPasswordResetToken(token); if (!user) return false
ResetVerify(r) ==
    /\ procs[r].pc = "resetVerify"
    /\ \E u \in verifyPasswordResetToken(users, procs[r].token, now) :
           IF u = 0
           THEN /\ procs' = [procs EXCEPT ![r].pc = "idle", ![r].password = "",
                                          ![r].result = "fail"]
                /\ last' = [op |-> "reset", status |-> 400, token |-> procs[r].token]
           ELSE /\ procs' = [procs EXCEPT ![r].pc = "resetUpdate", ![r].user = u]
                /\ UNCHANGED last
    /\ UNCHANGED <<books, userRatings, savedBooks, bookComments, memVars, authVars>>

\* the update of resetPassword and the route's response
ResetUpdate(r) ==
    /\ procs[r].pc = "resetUpdate"
    /\ users' = resetPasswordRow(users, procs[r].user, procs[r].password)
    /\ procs' = [procs EXCEPT ![r].pc = "idle", ![r].user = 0,
                              ![r].password = "", ![r].result = "ok"]
    /\ last' = [op |-> "reset", status |-> 200, token |-> procs[r].token]
    /\ UNCHANGED <<books, userRatings, savedBooks, bookComments, memVars, now,
                   tokensIssued>>

NextAuth ==
    \/ Tick
    \/ \E e \in {"", "a", "z"} : RequestReset(e)
    \/ \E r \in Requests, t \in 1..MaxTokens : VerifyStart(r, t)
    \/ \E r \in Requests : VerifyRun(r)
    \/ \E r \in Requests, t \in 1..MaxTokens, p \in {"", "h1", "h2"} :
           ResetStart(r, t, p)
    \/ \E r \in Requests : ResetVerify(r)
    \/ \E r \in Requests : ResetUpdate(r)

SpecAuth == Init /\ [][NextAuth]_vars

-----------------------------------------------------------------------------
(* Rate requests in which a database statement fails.  The handler runs    *)
(* its statements outside any transaction; a statement that throws leaves  *)
(* the earlier ones applied and the route answers 500.                     *)

\* the await at which the statement throws
FailurePoints == {"getUserRating", "writeRating", "selectAggregate",
                  "updateBook", "getBook"}

\* POST /api/books/:id/rate with a valid value, failing at the given await
RateRequestFailing(u, b, v, failAt) ==
    /\ ~RatingOutOfRange(v)
    /\ IF failAt \in {"getUserRating", "writeRating"}
       THEN UNCHANGED <<books, userRatings>>
       ELSE /\ RatingRowIds(userRatings, u, b) = {} => Len(userRatings) < MaxRatings
            /\ \E t \in RatedTables(userRatings, books, u, b, v) :
                   /\ userRatings' = t[1]
                   /\ books' = IF failAt = "getBook" THEN t[2] ELSE books
    /\ last' = [op |-> "rate", status |-> 500, userId |-> u, bookId |-> b,
                value |-> v]
    /\ UNCHANGED <<savedBooks, bookComments, memVars, procs>>
    /\ UNCHANGED authVars

\* ids of the seeded books
SeedIds == 1..Len(SeedBooks)

NextRateFail ==
    \/ \E u \in Users, b \in SeedIds, v \in SignalRatings : RateRequest(u, b, v)
    \/ \E u \in Users, b \in SeedIds, v \in SignalRatings, f \in FailurePoints :
           RateRequestFailing(u, b, v, f)

SpecRateFail == Init /\ [][NextRateFail]_vars

-----------------------------------------------------------------------------
(* Save and unsave requests, two requests interleaved at their awaits.     *)

\* POST /api/books/:id/save: bookId and req.user.id read
SaveStart(r, u, b) ==
    /\ procs[r].pc = "idle"
    /\ procs' = [procs EXCEPT ![r] =
                    [pc |-> "saveGetBook", op |-> "save", userId |-> u,
                     bookId |-> b, status |-> 0]]
    /\ UNCHANGED <<books, userRatings, savedBooks, bookComments, memVars, last>>
    /\ UNCHANGED authVars

\* const book = await storage.getBook(bookId); if (!book) return 404
SaveGetBook(r) ==
    /\ procs[r].pc = "saveGetBook"
    /\ procs' = IF procs[r].bookId \in 1..Len(books)
                THEN [procs EXCEPT ![r].pc = "saveCheck"]
                ELSE [procs EXCEPT ![r].pc = "done", ![r].status = 404]
    /\ UNCHANGED <<books, userRatings, savedBooks, bookComments, memVars, last>>
    /\ UNCHANGED authVars

\* await storage.isBookSaved(req.user.id, bookId); if (isAlreadySaved) return 400
SaveCheck(r) ==
    /\ procs[r].pc = "saveCheck"
    /\ procs' = IF isBookSaved(savedBooks, procs[r].userId, procs[r].bookId)
                THEN [procs EXCEPT ![r].pc = "done", ![r].status = 400]
                ELSE [procs EXCEPT ![r].pc = "saveInsert"]
    /\ UNCHANGED <<books, userRatings, savedBooks, bookComments, memVars, last>>
    /\ UNCHANGED authVars

\* await storage.saveBook(validatedData); res.status(201)
SaveInsert(r) ==
    /\ procs[r].pc = "saveInsert"
    /\ Len(savedBooks) < MaxSaved
    /\ savedBooks' = Append(savedBooks, [userId |-> procs[r].userId,
                                         bookId |-> procs[r].bookId])
    /\ procs' = [procs EXCEPT ![r].pc = "done", ![r].status = 201]
    /\ UNCHANGED <<books, userRatings, bookComments, memVars, last>>
    /\ UNCHANGED authVars

\* DatabaseStorage.removeSavedBook: delete ... where user_id = u and book_id = b
removeSavedBook(saved, u, b) ==
    SelectSeq(saved, LAMBDA row : ~(row.userId = u /\ row.bookId = b))

\* DELETE /api/books/:id/save: one statement, then res.status(200)
UnsaveRun(r, u, b) ==
    /\ procs[r].pc = "idle"
    /\ savedBooks' = removeSavedBook(savedBooks, u, b)
    /\ procs' = [procs EXCEPT ![r] =
                    [pc |-> "done", op |-> "unsave", userId |-> u,
                     bookId |-> b, status |-> 200]]
    /\ UNCHANGED <<books, userRatings, bookComments, memVars, last>>
    /\ UNCHANGED authVars

NextConcSave ==
    \/ \E r \in Requests, u \in Users, b \in BookIds : SaveStart(r, u, b)
    \/ \E r \in Requests : SaveGetBook(r)
    \/ \E r \in Requests : SaveCheck(r)
    \/ \E r \in Requests : SaveInsert(r)
    \/ \E r \in Requests, u \in Users, b \in BookIds : UnsaveRun(r, u, b)

SpecConcSave == Init /\ [][NextConcSave]_vars

-----------------------------------------------------------------------------
(* The adapter, two invocations interleaved at their awaits.  A listing    *)
(* invocation is processOpenLibraryResults on the docs of a fetched        *)
(* response; a by-id invocation is DatabaseStorage.getBookByOLID.          *)

\* searchOpenLibrary / getBooksByCategory / getTrendingBooks after the fetch:
\* return await processOpenLibraryResults(data.docs)
ListStart(r, docs) ==
    /\ procs[r].pc = "idle"
    /\ procs' = [procs EXCEPT ![r] =
                    [pc |-> IF docs = <<>> THEN "done" ELSE "listCheck",
                     op |-> "listing", docs |-> docs, processed |-> <<>>,
                     conflicted |-> FALSE, refused |-> {}]]
    /\ UNCHANGED <<books, userRatings, savedBooks, bookComments, memVars, last>>
    /\ UNCHANGED authVars

\* the pc once the loop body is through with the head of docs
AfterDoc(docs) == IF Tail(docs) = <<>> THEN "done" ELSE "listCheck"

\* for (const book of results): if (!book.key || !book.title) continue;
\* await db.select().from(books).where(eq(books.olid, olid))
ListCheck(r) ==
    /\ procs[r].pc = "listCheck"
    /\ LET docs == procs[r].docs
           doc == Head(docs)
           existing == BooksByOlid(books, DocOlid(doc))
       IN procs' =
            IF doc.key = <<>> \/ doc.title = <<>>
            THEN [procs EXCEPT ![r].docs = Tail(docs), ![r].pc = AfterDoc(docs)]
            ELSE IF existing # {}
            THEN [procs EXCEPT ![r].docs = Tail(docs), ![r].pc = AfterDoc(docs),
                               ![r].processed =
                                   Append(@, CHOOSE i \in existing : TRUE)]
            ELSE [procs EXCEPT ![r].pc = "listInsert"]
    /\ UNCHANGED <<books, userRatings, savedBooks, bookComments, memVars, last>>
    /\ UNCHANGED authVars

\* await db.insert(books).values(newBook).returning(), inside the try of the
\* loop body: an error is logged and the loop goes on with the next doc
ListInsert(r) ==
    /\ procs[r].pc = "listInsert"
    /\ LET docs == procs[r].docs
           row == NewBookFromDoc(Head(docs))
       IN IF UniqueViolation(books, row)
          THEN /\ procs' = [procs EXCEPT ![r].docs = Tail(docs),
                                         ![r].pc = AfterDoc(docs),
                                         ![r].conflicted = TRUE,
                                         ![r].refused = @ \cup {row.olid}]
               /\ UNCHANGED books
          ELSE /\ Len(books) < MaxBooks
               /\ books' = Append(books, row)
               /\ procs' = [procs EXCEPT ![r].docs = Tail(docs),
                                         ![r].pc = AfterDoc(docs),
                                         ![r].processed = Append(@, Len(books) + 1)]
    /\ UNCHANGED <<userRatings, savedBooks, bookComments, memVars, last>>
    /\ UNCHANGED authVars

ByIdStart(r, olid) ==
    /\ procs[r].pc = "idle"
    /\ procs' = [procs EXCEPT ![r] =
                    [pc |-> "byIdLocal", op |-> "byOlid", olid |-> olid,
                     found |-> 0, conflicted |-> FALSE, refused |-> {}]]
    /\ UNCHANGED <<books, userRatings, savedBooks, bookComments, memVars, last>>
    /\ UNCHANGED authVars

\* DatabaseStorage.getBookByOLID: the first select; if (book) return book
ByIdLocal(r) ==
    /\ procs[r].pc = "byIdLocal"
    /\ LET local == BooksByOlid(books, procs[r].olid)
       IN procs' = IF local # {}
                   THEN [procs EXCEPT ![r].found = CHOOSE i \in local : TRUE,
                                      ![r].pc = "done"]
                   ELSE [procs EXCEPT ![r].pc = "byIdCheck"]
    /\ UNCHANGED <<books, userRatings, savedBooks, bookComments, memVars, last>>
    /\ UNCHANGED authVars

\* openLibraryService.getBookByOLID: its own select; if (existingBook) return
ByIdCheck(r) ==
    /\ procs[r].pc = "byIdCheck"
    /\ procs' = [procs EXCEPT ![r].pc =
                    IF BooksByOlid(books, procs[r].olid) # {}
                    THEN "byIdReselect" ELSE "byIdInsert"]
    /\ UNCHANGED <<books, userRatings, savedBooks, bookComments, memVars, last>>
    /\ UNCHANGED authVars

\* the fetches, then await db.insert(books).values(newBook).returning();
\* any error: catch, return null, and the store returns undefined
ByIdInsert(r) ==
    /\ procs[r].pc = "byIdInsert"
    /\ \E resp \in WorkResponses :
         LET row == NewBookFromWork(procs[r].olid, resp.data)
         IN IF ~resp.ok \/ InsertRejectsNaN(resp.data)
            THEN /\ procs' = [procs EXCEPT ![r].pc = "done"]
                 /\ UNCHANGED books
            ELSE IF UniqueViolation(books, row)
            THEN /\ procs' = [procs EXCEPT ![r].pc = "done",
                                           ![r].conflicted = TRUE,
                                           ![r].refused = {row.olid}]
                 /\ UNCHANGED books
            ELSE /\ Len(books) < MaxBooks
                 /\ books' = Append(books, row)
                 /\ procs' = [procs EXCEPT ![r].pc = "byIdReselect"]
    /\ UNCHANGED <<userRatings, savedBooks, bookComments, memVars, last>>
    /\ UNCHANGED authVars

\* DatabaseStorage.getBookByOLID: if (openLibraryBook) select again, return it
ByIdReselect(r) ==
    /\ procs[r].pc = "byIdReselect"
    /\ LET again == BooksByOlid(books, procs[r].olid)
       IN procs' = [procs EXCEPT ![r].pc = "done",
                                 ![r].found = IF again = {} THEN 0
                                              ELSE CHOOSE i \in again : TRUE]
    /\ UNCHANGED <<books, userRatings, savedBooks, bookComments, memVars, last>>
    /\ UNCHANGED authVars

NextConcCatalog ==
    \/ \E r \in Requests, docs \in DocLists : ListStart(r, docs)
    \/ \E r \in Requests : ListCheck(r)
    \/ \E r \in Requests : ListInsert(r)
    \/ \E r \in Requests, olid \in OlidInputs : ByIdStart(r, olid)
    \/ \E r \in Requests : ByIdLocal(r)
    \/ \E r \in Requests : ByIdCheck(r)
    \/ \E r \in Requests : ByIdInsert(r)
    \/ \E r \in Requests : ByIdReselect(r)

SpecConcCatalog == Init /\ [][NextConcCatalog]_vars

-----------------------------------------------------------------------------
(* Claims on the rating aggregator, requests handled one after the other *)

RowsOfBook(b) == {i \in 1..Len(userRatings) : userRatings[i].bookId = b}
RowsOfPair(u, b) ==
    {i \in 1..Len(userRatings) :
        userRatings[i].userId = u /\ userRatings[i].bookId = b}
RECURSIVE SumOfRows(_)
SumOfRows(ids) ==
    IF ids = {} THEN 0
    ELSE LET i == CHOOSE j \in ids : TRUE
         IN userRatings[i].rating + SumOfRows(ids \ {i})
RateCompleted == last.op = "rate" /\ last.status = 200

\* C1 as stated: after a completed rate call every book of the store has
\* ratingCount equal to the number of its user_ratings rows.
C1_EveryBookCountMatches ==
    RateCompleted =>
        \A b \in 1..Len(books) : books[b].ratingCount = Cardinality(RowsOfBook(b))

\* C1 amended: after a completed rate(u, b, v) call the rated book b, when it is
\* a row of the store, has ratingCount equal to the number of user_ratings rows
\* of b (books never rated keep their seeded or provisional count).
C1_RatedBookCountMatches ==
    (RateCompleted /\ last.bookId \in 1..Len(books)) =>
        books[last.bookId].ratingCount = Cardinality(RowsOfBook(last.bookId))

C1_Witness ==
    /\ RateCompleted
    /\ last.bookId \in 1..Len(books)
    /\ Cardinality(RowsOfBook(last.bookId)) = 2
    /\ books[last.bookId].ratingCount = 2

\* C2: after a completed rate call on book b, b.rating is the mean of the
\* user_ratings values of b rounded to one decimal place (5 and 4 give 4.5).
C2_RatingIsMeanToOneDecimal ==
    (RateCompleted /\ last.bookId \in 1..Len(books)) =>
        LET ids == RowsOfBook(last.bookId)
            n == Cardinality(ids)
        IN books[last.bookId].rating = (20 * SumOfRows(ids) + n) \div (2 * n)

\* C6: a rate call by a user who already has a row for the book adds no row
\* and leaves the book's ratingCount as it was, and no rate call raises a
\* book's ratingCount by more than 1; in DatabaseStorage and in MemStorage.
C6_RerateAddsNoRow ==
    [][\A u \in Users, b \in BookIds :
          (/\ last'.op = "rate" /\ last'.status = 200
           /\ last'.userId = u /\ last'.bookId = b)
          => /\ Len(userRatings') <= Len(userRatings) + 1
             /\ Len(memUserRatings') <= Len(memUserRatings) + 1
             /\ b \in 1..Len(books) =>
                    /\ books'[b].ratingCount <= books[b].ratingCount + 1
                    /\ memBooks'[b].ratingCount <= memBooks[b].ratingCount + 1
             /\ RowsOfPair(u, b) # {} =>
                    /\ Len(userRatings') = Len(userRatings)
                    /\ Len(memUserRatings') = Len(memUserRatings)
                    /\ \E i \in RowsOfPair(u, b) :
                           userRatings'[i].rating = last'.value
                    /\ b \in 1..Len(books) =>
                           /\ books'[b].ratingCount = books[b].ratingCount
                           /\ memBooks'[b].ratingCount = memBooks[b].ratingCount
      ]_vars

\* a re-rate has happened: the rated pair's row is older than the newest row
C6_Witness ==
    /\ RateCompleted
    /\ \E i \in RowsOfPair(last.userId, last.bookId) :
           i < Len(userRatings) /\ userRatings[i].rating = last.value

\* C10: a rate request with a value outside 1..5 is answered 400 and changes
\* no user_ratings row and no book.
C10_OutOfRangeRejected ==
    [][(last'.op = "rate" /\ last'.value \notin 1..5)
          => /\ last'.status = 400
             /\ UNCHANGED <<books, userRatings, memVars>>
      ]_vars

C10_Witness ==
    /\ last.op = "rate" /\ last.status = 400 /\ last.value = 6
    /\ Len(userRatings) > 0

-----------------------------------------------------------------------------
(* Claims on the catalog, requests handled one after the other *)

RowsWithOlid(bks, olid) == {j \in 1..Len(bks) : bks[j].olid = olid}

\* C7: a search that reaches the adapter leaves every row that existed as it
\* was (rating and ratingCount included) and adds no row for an olid that
\* already had one, however often it is repeated.
C7_ExistingRowKept ==
    [][(last'.op = "search" /\ last'.status = 200 /\ last'.extCalled)
          => \A i \in 1..Len(books) :
                /\ i <= Len(books')
                /\ books'[i] = books[i]
                /\ Cardinality(RowsWithOlid(books', books[i].olid)) = 1
      ]_vars

\* the adapter returned the seeded row OL1W for a page that did not hold it
C7_Witness ==
    /\ last.op = "search" /\ last.status = 200 /\ last.extCalled
    /\ last.items = <<2, 1>>
    /\ books[1] = SeedBooks[1]

\* C9: when the local query of a search or category request returns at least
\* limit rows, the result is exactly those rows and the adapter is not called.
C9_LocalFirst ==
    [][(last'.op \in {"search", "category"} /\ last'.status = 200)
          => LET matches == IF last'.op = "search"
                            THEN SearchMatches(books, last'.arg)
                            ELSE CategoryMatches(books, last'.arg)
                 page == Page(matches, last'.limit, last'.offset)
             IN Len(page) >= last'.limit
                   => /\ last'.items = page
                      /\ ~last'.extCalled
                      /\ books' = books
      ]_vars

C9_Witness ==
    /\ last.op \in {"search", "category"} /\ last.status = 200
    /\ ~last.extCalled
    /\ Len(last.items) = last.limit
    /\ last.limit >= 2

-----------------------------------------------------------------------------
(* Claims on the rating aggregator, two requests handled concurrently *)

RateDone(r) == procs[r].pc = "done" /\ procs[r].op = "rate"

\* C3: two different users rate the same unrated book 4 and 2; once both
\* requests have completed the book has rating 3.0 and ratingCount 2.
C3_BothRatingsReflected ==
    \A b \in 1..Len(books) :
        (/\ RateDone(1) /\ RateDone(2)
         /\ procs[1].bookId = b /\ procs[2].bookId = b
         /\ procs[1].userId # procs[2].userId
         /\ procs[1].value = 4 /\ procs[2].value = 2)
        => (books[b].rating = 30 /\ books[b].ratingCount = 2)

\* C5: in every reachable state there is at most one user_ratings row per
\* (userId, bookId), also when two requests of one user for one book overlap.
C5_OneRowPerUserAndBook ==
    \A u \in Users, b \in BookIds : Cardinality(RowsOfPair(u, b)) <= 1

-----------------------------------------------------------------------------
(* Claims on the adapter, two invocations interleaved *)

\* C8: no two rows of books carry the same olid, also when two invocations of
\* the adapter (listing or by-id) run concurrently on the same foreign record.
C8_OlidUnique ==
    \A i, j \in 1..Len(books) : i # j => books[i].olid # books[j].olid

\* both invocations found the olid absent, one inserted it and the insert of
\* the other was refused by the unique key
C8_Witness ==
    \E r, q \in Requests :
        /\ r # q
        /\ procs[r].pc = "done" /\ procs[r].conflicted
        /\ procs[q].pc = "done" /\ ~procs[q].conflicted
        /\ Len(books) > Len(SeedBooks)

-----------------------------------------------------------------------------
(* Claims on recommendations *)

\* C4: the list a recommendations request returns holds no book the user has
\* rated, saved or commented on.
C4_NoInteractedBook ==
    last.op = "recommend" =>
        \A k \in 1..Len(last.items) :
            /\ \A i \in 1..Len(userRatings) :
                   userRatings[i].userId = last.userId
                       => userRatings[i].bookId # last.items[k]
            /\ \A i \in 1..Len(savedBooks) :
                   savedBooks[i].userId = last.userId
                       => savedBooks[i].bookId # last.items[k]
            /\ \A i \in 1..Len(bookComments) :
                   bookComments[i].userId = last.userId
                       => bookComments[i].bookId # last.items[k]


\* the user has no row in user_ratings, saved_books or book_comments
NoHistory(u) ==
    /\ \A i \in 1..Len(userRatings) : userRatings[i].userId # u
    /\ \A i \in 1..Len(savedBooks) : savedBooks[i].userId # u
    /\ \A i \in 1..Len(bookComments) : bookComments[i].userId # u

\* C11: for a user with no ratings, saved books or comments a recommendations
\* request returns what getTrendingBooks(limit) returns on the same store,
\* for one and the same answer of Open Library.
C11_NoHistoryIsTrending ==
    [][(last'.op = "recommend" /\ NoHistory(last'.userId))
          => \E t \in getTrendingBooks(books, last'.limit) :
                 last'.items = t.items /\ books' = t.books
      ]_vars

\* the other user has a history, this one has none and got a list
C11_Witness ==
    /\ last.op = "recommend" /\ NoHistory(last.userId)
    /\ Len(userRatings) > 0 /\ Len(savedBooks) > 0
    /\ Len(last.items) >= 2


\* topGenres and topAuthors of user u on the store of the current state
TopGenresOf(u) ==
    LET interacted == InteractedBookIds(userRatings, savedBooks, bookComments, u)
        ids == SelectSeq([i \in 1..Len(books) |-> i], LAMBDA i : i \in interacted)
    IN SeqToSet(TopKeys(ids, [k \in 1..Len(ids) |-> books[ids[k]].genre],
                        HighlyRatedBookIds(userRatings, u)))
TopAuthorsOf(u) ==
    LET interacted == InteractedBookIds(userRatings, savedBooks, bookComments, u)
        ids == SelectSeq([i \in 1..Len(books) |-> i], LAMBDA i : i \in interacted)
    IN SeqToSet(TopKeys(ids, [k \in 1..Len(ids) |-> books[ids[k]].author],
                        HighlyRatedBookIds(userRatings, u)))

\* C12: when the user has top genres or authors, every returned book whose
\* genre is a top genre or whose author is a top author comes before every
\* returned book that matches neither.
C12_PreferredFirst ==
    [][(last'.op = "recommend"
        /\ TopGenresOf(last'.userId) \cup TopAuthorsOf(last'.userId) # {})
          => LET items == last'.items
                 matches(i) == \/ books'[i].genre \in TopGenresOf(last'.userId)
                               \/ books'[i].author \in TopAuthorsOf(last'.userId)
             IN \A j, k \in 1..Len(items) :
                    j < k => ~(matches(items[k]) /\ ~matches(items[j]))
      ]_vars


-----------------------------------------------------------------------------
(* Claims on catalog requests whose Open Library call fails *)

\* C13: when the Open Library call of a search, category or trending request
\* fails, the request is answered with status 200 and exactly the local rows
\* of the page, and nothing is written.
C13_AdapterFailureGivesLocalRows ==
    [][(last'.op \in {"search", "category", "trending"} /\ last'.status # 400
        /\ last'.extFailed)
          => LET localRows ==
                   IF last'.op = "search"
                   THEN Page(SearchMatches(books, last'.arg),
                             last'.limit, last'.offset)
                   ELSE IF last'.op = "category"
                   THEN Page(CategoryMatches(books, last'.arg),
                             last'.limit, last'.offset)
                   ELSE Page(OrderByRatingDesc(books, Len(books)), last'.limit, 0)
             IN /\ last'.status = 200
                /\ last'.items = localRows
                /\ books' = books
      ]_vars

\* a failed call behind a short, non-empty local page, after the adapter had
\* added a row in an earlier request
C13_Witness ==
    /\ last.op \in {"search", "category", "trending"} /\ last.status = 200
    /\ last.extFailed
    /\ Len(last.items) >= 1 /\ Len(last.items) < last.limit
    /\ Len(books) > Len(SeedBooks)


-----------------------------------------------------------------------------
(* Claims on saved books *)

\* C14: saved_books holds at most one row per (userId, bookId), also when two
\* save requests of the same user for the same book run concurrently.
C14_OneSavedRowPerUserAndBook ==
    \A u \in Users, b \in BookIds :
        Cardinality({i \in 1..Len(savedBooks) :
                        savedBooks[i].userId = u /\ savedBooks[i].bookId = b}) <= 1


-----------------------------------------------------------------------------
(* Claims on rating a book the adapter created *)

\* C15: the first rate call for a book the adapter created, a book with no
\* user_ratings row, replaces the provisional values: afterwards the book's
\* rating is the value given and its ratingCount is 1.
C15_FirstRatingReplacesProvisional ==
    [][(/\ last'.op = "rate" /\ last'.status = 200
        /\ last'.bookId \in (Len(SeedBooks) + 1)..Len(books)
        /\ \A i \in 1..Len(userRatings) : userRatings[i].bookId # last'.bookId)
          => /\ books'[last'.bookId].rating = 10 * last'.value
             /\ books'[last'.bookId].ratingCount = 1
      ]_vars

\* the adapter-created row, rated once, after further rows had been created
C15_Witness ==
    /\ last.op = "rate" /\ last.status = 200
    /\ last.bookId = Len(SeedBooks) + 1 /\ Len(books) > Len(SeedBooks) + 1
    /\ Len(userRatings) = 1 /\ userRatings[1].bookId = last.bookId
    /\ books[last.bookId].ratingCount = 1
    /\ books[last.bookId].rating = 10 * last.value


-----------------------------------------------------------------------------
(* Claims on rate requests that fail *)

RECURSIVE SumOver(_, _)
SumOver(rows, ids) ==
    IF ids = {} THEN 0
    ELSE LET i == CHOOSE j \in ids : TRUE
         IN rows[i].rating + SumOver(rows, ids \ {i})

\* C16: a rate request that fails leaves the store with the user_ratings
\* change and the matching aggregate of the book both applied, or with
\* neither: no rating row is left behind with an aggregate that misses it.
C16_FailedRateIsAtomic ==
    [][(last'.op = "rate" /\ last'.status = 500)
          => \/ userRatings' = userRatings /\ books' = books
             \/ LET b == last'.bookId
                    ids == {i \in 1..Len(userRatings') : userRatings'[i].bookId = b}
                    sum == SumOver(userRatings', ids)
                    n == Cardinality(ids)
                IN b \in 1..Len(books')
                      => /\ books'[b].ratingCount = n
                         /\ books'[b].rating = 10 * ((2 * sum + n) \div (2 * n))
      ]_vars


-----------------------------------------------------------------------------
(* Claims on requests that name a missing book or repeat a save *)

\* C17: a rate request with a value in 1..5 for a book id that has no row is
\* answered 404 and adds no user_ratings row.
C17_RateMissingBookIsNotFound ==
    [][(/\ last'.op = "rate" /\ last'.value \in 1..5
        /\ last'.bookId \notin 1..Len(books))
          => /\ last'.status = 404
             /\ userRatings' = userRatings
      ]_vars

\* C18: a save request for a book the user has already saved is answered 409
\* and leaves saved_books as it was.
C18_DuplicateSaveIsConflict ==
    [][(/\ last'.op = "save"
        /\ \E i \in 1..Len(savedBooks) :
               /\ savedBooks[i].userId = last'.userId
               /\ savedBooks[i].bookId = last'.bookId)
          => /\ last'.status = 409
             /\ savedBooks' = savedBooks
      ]_vars


-----------------------------------------------------------------------------
(* Claims on pagination *)

\* C19: when a search or category request is served from local rows alone,
\* pagination.totalBooks is the number of local rows that match.
C19_TotalIsLocalCount ==
    [][(last'.op \in {"search", "category"} /\ last'.status = 200
        /\ ~last'.extCalled)
          => last'.totalBooks =
                Len(IF last'.op = "search"
                    THEN SearchMatches(books', last'.arg)
                    ELSE CategoryMatches(books', last'.arg))
      ]_vars

-----------------------------------------------------------------------------
(* Claims on the invocation that loses the race for an olid *)

\* C20: an adapter invocation whose insert was refused by the unique key
\* returns the row the other invocation created: a listing holds it in its
\* result, a by-id call returns it.
C20_LoserReturnsWinnersRow ==
    \A r \in Requests :
        (procs[r].pc = "done" /\ procs[r].conflicted)
            => IF procs[r].op = "listing"
               THEN \A o \in procs[r].refused :
                        \E k \in 1..Len(procs[r].processed) :
                            books[procs[r].processed[k]].olid = o
               ELSE /\ procs[r].found # 0
                    /\ books[procs[r].found].olid = procs[r].olid


-----------------------------------------------------------------------------
(* Claims on waiting for Open Library *)

\* C21: a request that waits for Open Library eventually returns a response,
\* also when Open Library never answers.
C21_RequestEventuallyReturns ==
    \A r \in CatalogCallers :
        (procs[r].pc = "fetching") ~> (procs[r].pc = "done")


-----------------------------------------------------------------------------
(* Claims on the lists catalog requests return *)

\* C22: the list a search or category request returns never holds two books
\* with the same olid.
C22_NoDuplicateOlidInList ==
    (last.op \in {"search", "category"} /\ last.status = 200)
        => \A j, k \in 1..Len(last.items) :
               j # k => books[last.items[j]].olid # books[last.items[k]].olid


-----------------------------------------------------------------------------
(* Claims on the provisional rating *)

\* C23: the provisional rating of every record the adapter builds a book
\* from lies between 3.0 and 5.0.
C23_ProvisionalRatingInRange ==
    last.op = "built" => (last.rating >= 30 /\ last.rating <= 50)


-----------------------------------------------------------------------------
(* Claims on the trending list *)

\* C24: the list a trending request returns is ordered by rating, highest
\* first.
C24_TrendingOrderedByRating ==
    last.op = "trending"
        => \A k \in 1..(Len(last.items) - 1) :
               books[last.items[k]].rating >= books[last.items[k + 1]].rating


-----------------------------------------------------------------------------
(* Claims on the top genres and authors *)

\* C25: the top genres are the up-to-three non-empty genres of the highest
\* weighted frequency over the interacted books, a book rated 4 or higher
\* weighing 2 and any other book 1, equal frequencies in the order in which
\* the genres are first met.
C25_TopKeysAreHeaviestThree ==
    last.op = "topKeys" =>
        LET n == Len(last.genres)
            keys == {last.genres[i] : i \in 1..n} \ {<<>>}
            weight(g) ==
                Cardinality({i \in 1..n : last.genres[i] = g})
                + Cardinality({i \in 1..n : last.genres[i] = g
                                              /\ last.signals[i] >= 4})
            first(g) == CHOOSE i \in 1..n :
                            /\ last.genres[i] = g
                            /\ \A j \in 1..(i - 1) : last.genres[j] # g
            ahead(g) == {h \in keys : \/ weight(h) > weight(g)
                                      \/ weight(h) = weight(g) /\ first(h) < first(g)}
        IN /\ Len(last.top) = (IF Cardinality(keys) < 3 THEN Cardinality(keys) ELSE 3)
           /\ \A k \in 1..Len(last.top) :
                  /\ last.top[k] \in keys
                  /\ Cardinality(ahead(last.top[k])) = k - 1


-----------------------------------------------------------------------------
(* Claims on the size of the recommendations *)

\* C26: a recommend response holds at most limit books and no book id twice,
\* also when the list was topped up from the trending list.
C26_AtMostLimitAndDistinct ==
    last.op = "recommend"
        => /\ Len(last.items) <= last.limit
           /\ \A j, k \in 1..Len(last.items) :
                  j # k => last.items[j] # last.items[k]

\* a user with history whose one local recommendation, the unrated book 2,
\* was topped up with the book the trending list created
C26_Witness ==
    /\ last.op = "recommend"
    /\ ~NoHistory(last.userId)
    /\ Len(last.items) >= 2
    /\ last.items[1] = 2
    /\ last.items[2] = 3
    /\ books[2].rating < books[3].rating


-----------------------------------------------------------------------------
(* Claims on what a request leaves unchanged in the books table *)

\* C27: a row of books stays in the table with its non-aggregate fields
\* unchanged, and its rating and ratingCount change only in a rate request for
\* that book; a search, category, trending, by-id or recommend request, with
\* or without rows created from Open Library, changes no existing row.
C27_AggregatesChangeOnlyByRate ==
    [][\A i \in 1..Len(books) :
           /\ i <= Len(books')
           /\ [books'[i] EXCEPT !.rating = books[i].rating,
                                !.ratingCount = books[i].ratingCount] = books[i]
           /\ books'[i] # books[i]
                 => /\ last'.op = "rate"
                    /\ last'.status = 200
                    /\ last'.bookId = i]_vars

\* a rate request has set the aggregates of book 3, a row created from Open
\* Library, with the seeded rows beside it as they were created
C27_Witness ==
    /\ last.op = "rate"
    /\ last.status = 200
    /\ last.bookId = 3
    /\ Len(books) >= 3
    /\ books[3].ratingCount = 1
    /\ books[3].rating = 10 * last.value
    /\ books[1] = SeedBooks[1]
    /\ books[2] = SeedBooks[2]


-----------------------------------------------------------------------------
(* Claims on the timestamp of a rating *)

\* C28: a rate request of a user who has a row for the book adds no row and
\* leaves in that row the new value and a new ratedAt, later than the one
\* the row held when time has passed since.
C28_RerateStampsRow ==
    [][(/\ now' = now
        /\ last'.op = "rate"
        /\ last'.status = 200
        /\ RowsOfPair(last'.userId, last'.bookId) # {})
           => /\ Len(userRatings') = Len(userRatings)
              /\ \A i \in RowsOfPair(last'.userId, last'.bookId) :
                     /\ userRatings'[i].rating = last'.value
                     /\ userRatings[i].ratedAt < now
                           => userRatings'[i].ratedAt > userRatings[i].ratedAt]_vars


-----------------------------------------------------------------------------
(* Claims on the two storage classes *)

\* C29: fed the same createOrUpdateUserRating calls from the same books,
\* MemStorage and DatabaseStorage hold the same rating and ratingCount on
\* every book.
C29_StoragesAgreeOnAggregates ==
    \A b \in 1..Len(books) :
        /\ b <= Len(memBooks)
        /\ memBooks[b].rating = books[b].rating
        /\ memBooks[b].ratingCount = books[b].ratingCount


-----------------------------------------------------------------------------
(* Claims on the password reset token *)

\* a reset request for the token has answered with success
ResetSucceeded(t) ==
    \E r \in Requests :
        /\ procs[r].pc = "idle"
        /\ "result" \in DOMAIN procs[r]
        /\ procs[r].op = "reset"
        /\ procs[r].token = t
        /\ procs[r].result = "ok"

====
